---- MODULE Spec2Model ----
(***************************************************************************)
(* Model of tax_analyzer_backend.py: the /summarize pipeline               *)
(* (extract_text_from_pdf, call_gemini_api, summarize_notice) and the      *)
(* /register handler running against the PostgreSQL users table, and the  *)
(* React App component (App.js) that calls them.                           *)
(*                                                                         *)
(* Python strings are sequences of one-character strings.  The texts the   *)
(* model feeds to the code are drawn from the alphabet                     *)
(*   backtick { } [ ] : , . " space newline, digits, ASCII letters         *)
(* and json.loads is modelled exactly on that alphabet (no backslash, no   *)
(* sign, fraction or exponent ever follows a digit in a modelled text).    *)
(***************************************************************************)
EXTENDS Integers, Sequences, FiniteSets, TLC

\* ------------------------------------------------------------------ bounds
\* pages of an uploaded PDF
MaxPages == 2
\* whitespace characters the upstream may put on each side of its text
MaxPad == 1
\* concurrent /register requests
NumProcs == 3
\* calls of one api function the App has in flight at a time
MaxInFlight == 2

\* ------------------------------------------------------- Python str helpers
\* None, and a value that is not None
None == [isNone |-> TRUE]
Some(v) == [isNone |-> FALSE, val |-> v]

\* (not x) for x a str or None
Falsy(x) == x.isNone \/ x.val = <<>>

\* characters str.strip() removes and the json scanner skips
WHITESPACE == {" ", "\n", "\t", "\r"}

RECURSIVE LStrip(_)
LStrip(s) == IF s # <<>> /\ Head(s) \in WHITESPACE THEN LStrip(Tail(s)) ELSE s

RECURSIVE RStrip(_)
RStrip(s) ==
    IF s # <<>> /\ s[Len(s)] \in WHITESPACE THEN RStrip(SubSeq(s, 1, Len(s) - 1)) ELSE s

\* str.strip()
Strip(s) == RStrip(LStrip(s))

\* str.startswith(p)
StartsWith(s, p) == Len(s) >= Len(p) /\ SubSeq(s, 1, Len(p)) = p

\* s[a:-b] for a, b > 0: Python clamps both ends and yields "" when they cross
SliceFromTo(s, a, b) ==
    LET lo == IF a < Len(s) THEN a ELSE Len(s)
        hi == IF Len(s) - b > 0 THEN Len(s) - b ELSE 0
    IN IF lo >= hi THEN <<>> ELSE SubSeq(s, lo + 1, hi)

\* ------------------------------------------------------------- json.loads
DIGITS == {"0", "1", "2", "3", "4", "5", "6", "7", "8", "9"}

DigitVal(c) ==
    CASE c = "0" -> 0 [] c = "1" -> 1 [] c = "2" -> 2 [] c = "3" -> 3 [] c = "4" -> 4
      [] c = "5" -> 5 [] c = "6" -> 6 [] c = "7" -> 7 [] c = "8" -> 8 [] c = "9" -> 9

\* a JSONDecodeError, and a decoded value with the index of the next character
Fail == [ok |-> FALSE]
Ok(v, p) == [ok |-> TRUE, val |-> v, pos |-> p]

\* s[i], or "" past the end
At(s, i) == IF i >= 1 /\ i <= Len(s) THEN s[i] ELSE ""

\* s[i:i+len(w)] == w
Matches(s, i, w) == i + Len(w) - 1 <= Len(s) /\ SubSeq(s, i, i + Len(w) - 1) = w

RECURSIVE SkipWs(_, _)
SkipWs(s, i) == IF At(s, i) \in WHITESPACE THEN SkipWs(s, i + 1) ELSE i

\* index of the closing quote of a string whose first character is s[i];
\* 0 when the string is unterminated or holds a control character (strict)
RECURSIVE StringEnd(_, _)
StringEnd(s, i) ==
    IF i > Len(s) THEN 0
    ELSE IF s[i] = "\"" THEN i
    ELSE IF s[i] \in {"\n", "\t", "\r"} THEN 0
    ELSE StringEnd(s, i + 1)

\* py_scanstring: i is the index after the opening quote
ScanString(s, i) ==
    LET j == StringEnd(s, i)
    IN IF j = 0 THEN Fail ELSE Ok(SubSeq(s, i, j - 1), j + 1)

\* NUMBER_RE on digits: 0 | [1-9][0-9]*
RECURSIVE ScanDigits(_, _, _)
ScanDigits(s, i, acc) ==
    IF At(s, i) \in DIGITS THEN ScanDigits(s, i + 1, acc * 10 + DigitVal(s[i]))
    ELSE Ok([t |-> "num", n |-> acc], i)

ScanNumber(s, i) ==
    IF s[i] = "0" THEN Ok([t |-> "num", n |-> 0], i + 1) ELSE ScanDigits(s, i, 0)

LitNull == <<"n", "u", "l", "l">>
LitTrue == <<"t", "r", "u", "e">>
LitFalse == <<"f", "a", "l", "s", "e">>
LitNaN == <<"N", "a", "N">>
LitInfinity == <<"I", "n", "f", "i", "n", "i", "t", "y">>

\* dict[k] = v
Put(f, k, v) == [x \in (DOMAIN f) \cup {k} |-> IF x = k THEN v ELSE f[x]]

RECURSIVE ScanOnce(_, _)
RECURSIVE JSONObjectPairs(_, _, _)
RECURSIVE JSONArrayItems(_, _, _)

\* members of an object; s[i] is the opening quote of the next key
JSONObjectPairs(s, i, acc) ==
    LET k == ScanString(s, i + 1)
    IN IF ~k.ok THEN Fail
       ELSE LET c == SkipWs(s, k.pos)
            IN IF At(s, c) # ":" THEN Fail
               ELSE LET v == ScanOnce(s, SkipWs(s, c + 1))
                    IN IF ~v.ok THEN Fail
                       ELSE LET acc2 == Put(acc, k.val, v.val)
                                d == SkipWs(s, v.pos)
                            IN IF At(s, d) = "}" THEN Ok([t |-> "obj", o |-> acc2], d + 1)
                               ELSE IF At(s, d) # "," THEN Fail
                               ELSE LET e == SkipWs(s, d + 1)
                                    IN IF At(s, e) # "\"" THEN Fail
                                       ELSE JSONObjectPairs(s, e, acc2)

\* items of an array; s[i] is the first character of the next item
JSONArrayItems(s, i, acc) ==
    LET v == ScanOnce(s, i)
    IN IF ~v.ok THEN Fail
       ELSE LET acc2 == Append(acc, v.val)
                d == SkipWs(s, v.pos)
            IN IF At(s, d) = "]" THEN Ok([t |-> "arr", a |-> acc2], d + 1)
               ELSE IF At(s, d) # "," THEN Fail
               ELSE JSONArrayItems(s, SkipWs(s, d + 1), acc2)

\* json.scanner.py_make_scanner._scan_once
ScanOnce(s, i) ==
    LET c == At(s, i)
    IN IF c = "\"" THEN
           LET r == ScanString(s, i + 1)
           IN IF r.ok THEN Ok([t |-> "str", s |-> r.val], r.pos) ELSE Fail
       ELSE IF c = "{" THEN
           LET j == SkipWs(s, i + 1)
           IN IF At(s, j) = "}" THEN Ok([t |-> "obj", o |-> <<>>], j + 1)
              ELSE IF At(s, j) # "\"" THEN Fail
              ELSE JSONObjectPairs(s, j, <<>>)
       ELSE IF c = "[" THEN
           LET j == SkipWs(s, i + 1)
           IN IF At(s, j) = "]" THEN Ok([t |-> "arr", a |-> <<>>], j + 1)
              ELSE JSONArrayItems(s, j, <<>>)
       ELSE IF Matches(s, i, LitNull) THEN Ok([t |-> "null"], i + 4)
       ELSE IF Matches(s, i, LitTrue) THEN Ok([t |-> "bool", b |-> TRUE], i + 4)
       ELSE IF Matches(s, i, LitFalse) THEN Ok([t |-> "bool", b |-> FALSE], i + 5)
       ELSE IF c \in DIGITS THEN ScanNumber(s, i)
       ELSE IF Matches(s, i, LitNaN) THEN Ok([t |-> "NaN"], i + 3)
       ELSE IF Matches(s, i, LitInfinity) THEN Ok([t |-> "Infinity"], i + 8)
       ELSE Fail

\* json.loads(s): one value between optional whitespace, nothing after it
JsonLoads(s) ==
    LET v == ScanOnce(s, SkipWs(s, 1))
    IN IF ~v.ok THEN Fail
       ELSE IF SkipWs(s, v.pos) # Len(s) + 1 THEN Fail
       ELSE [ok |-> TRUE, val |-> v.val]

\* ------------------------------------------------------- program constants
\* the backtick character (a TLA+ string cannot hold one; "~" stands for it and
\* occurs in no modelled text otherwise)
BACKTICK == "~"

\* the opening and closing fence markers tested and sliced off at lines 122-123
FENCE_OPEN == <<BACKTICK, BACKTICK, BACKTICK, "j", "s", "o", "n">>
FENCE_CLOSE == <<BACKTICK, BACKTICK, BACKTICK>>

\* the keys the prompt requires of the summary object (line 97)
K_noticeFor ==
    <<"n", "o", "t", "i", "c", "e", "F", "o", "r">>
K_address ==
    <<"a", "d", "d", "r", "e", "s", "s">>
K_ssn ==
    <<"s", "s", "n">>
K_amountDue ==
    <<"a", "m", "o", "u", "n", "t", "D", "u", "e">>
K_payBy ==
    <<"p", "a", "y", "B", "y">>
K_reason ==
    <<"r", "e", "a", "s", "o", "n">>
K_details ==
    <<"d", "e", "t", "a", "i", "l", "s">>
K_fixSteps ==
    <<"f", "i", "x", "S", "t", "e", "p", "s">>
K_paymentOptions ==
    <<"p", "a", "y", "m", "e", "n", "t", "O", "p", "t", "i", "o", "n", "s">>
K_helpNumber ==
    <<"h", "e", "l", "p", "N", "u", "m", "b", "e", "r">>

REQUIRED_KEYS ==
    {K_noticeFor, K_address, K_ssn, K_amountDue, K_payBy, K_reason, K_details,
     K_fixSteps, K_paymentOptions, K_helpNumber}

\* the keys of the path read out of the body of the provider (line 121)
K_candidates ==
    <<"c", "a", "n", "d", "i", "d", "a", "t", "e", "s">>
K_content ==
    <<"c", "o", "n", "t", "e", "n", "t">>
K_parts ==
    <<"p", "a", "r", "t", "s">>
K_text ==
    <<"t", "e", "x", "t">>

\* the messages of the failure envelopes of summarize_notice
MSG_NO_FILE == "No PDF file provided."
MSG_UNREADABLE == "Could not read text from PDF."
MSG_AI_FAILED == "Failed to get summary from AI."
MSG_INVALID_FORMAT == "AI returned an invalid format."

\* ------------------------------------------------------------------ inputs
\* texts a page of a PDF may hold
PageTexts == {<<>>, <<"a">>, <<" ">>}

\* uploads: bytes fitz cannot open, or a document of 0..MaxPages pages
Pdfs ==
    {[parses |-> FALSE, pages |-> <<>>]}
        \cup {[parses |-> TRUE, pages |-> p] :
                p \in UNION {[1..n -> PageTexts] : n \in 0..MaxPages}}

\* whitespace around the text of the provider
Pads == UNION {[1..n -> {" ", "\n"}] : n \in 0..MaxPad}

\* what the provider may put between the fence markers, or send bare
TEXT_FULL ==
    <<"{", "\"", "n", "o", "t", "i", "c", "e", "F", "o", "r", "\"", ":", "\"", "X", "\"",
    ",", "\"", "a", "d", "d", "r", "e", "s", "s", "\"", ":", "\"", "X", "\"", ",", "\"",
    "s", "s", "n", "\"", ":", "\"", "X", "\"", ",", "\"", "a", "m", "o", "u", "n", "t", "D",
    "u", "e", "\"", ":", "\"", "X", "\"", ",", "\"", "p", "a", "y", "B", "y", "\"", ":",
    "\"", "X", "\"", ",", "\"", "r", "e", "a", "s", "o", "n", "\"", ":", "\"", "X", "\"",
    ",", "\"", "d", "e", "t", "a", "i", "l", "s", "\"", ":", "[", "]", ",", "\"", "f", "i",
    "x", "S", "t", "e", "p", "s", "\"", ":", "{", "}", ",", "\"", "p", "a", "y", "m", "e",
    "n", "t", "O", "p", "t", "i", "o", "n", "s", "\"", ":", "{", "}", ",", "\"", "h", "e",
    "l", "p", "N", "u", "m", "b", "e", "r", "\"", ":", "\"", "X", "\"", "}">>
TEXT_PARTIAL ==
    <<"{", "\"", "n", "o", "t", "i", "c", "e", "F", "o", "r", "\"", ":", "\"", "X", "\"",
    "}">>
TEXT_SORRY ==
    <<"S", "o", "r", "r", "y", ",", " ", "I", " ", "c", "a", "n", "n", "o", "t", " ", "p",
    "r", "o", "c", "e", "s", "s", " ", "t", "h", "i", "s", ".">>

TEXT_QUOTED == <<"\"">> \o TEXT_SORRY \o <<"\"">>

Bodies ==
    {<<>>, <<" ">>, <<"{", "}">>, <<"\n", "{", "}", "\n">>, <<"[", "]">>, <<"7">>,
     <<"n", "u", "l", "l">>, <<"{">>, <<BACKTICK, BACKTICK, BACKTICK, "\n", "{", "}", "\n">>,
     <<"{", "}", BACKTICK>>, TEXT_FULL, TEXT_PARTIAL, TEXT_SORRY, TEXT_QUOTED}

\* a provider text in parts: pad, optional opening fence, body, optional closing
\* fence, pad
TextParts ==
    [lead : Pads, open : BOOLEAN, body : Bodies, close : BOOLEAN, trail : Pads]

TextOf(p) ==
    p.lead \o (IF p.open THEN FENCE_OPEN ELSE <<>>) \o p.body
        \o (IF p.close THEN FENCE_CLOSE ELSE <<>>) \o p.trail

\* no text at all: the parts of a response that carries none
NoParts == [lead |-> <<>>, open |-> FALSE, body |-> <<>>, close |-> FALSE, trail |-> <<>>]

\* HTTP statuses the provider answers with
Statuses == {200, 404, 500}

\* shapes of a 2xx JSON body: the full path down to a text, or a body that
\* lacks a step of it
Shapes == {"text", "noCandidates", "emptyCandidates", "noContent", "notObject", "textNotStr"}

\* outcomes of requests.post: a transport error, or a response
HttpOutcomes ==
    {[kind |-> "error", status |-> 0, isJson |-> FALSE, shape |-> "text", parts |-> NoParts]}
        \cup {[kind |-> "response", status |-> s, isJson |-> FALSE, shape |-> "text",
               parts |-> NoParts] : s \in Statuses}
        \cup {[kind |-> "response", status |-> 200, isJson |-> TRUE, shape |-> sh,
               parts |-> NoParts] : sh \in Shapes \ {"text"}}
        \cup {[kind |-> "response", status |-> 200, isJson |-> TRUE, shape |-> "text",
               parts |-> p] : p \in TextParts}

NoOutcome == [kind |-> "none", status |-> 0, isJson |-> FALSE, shape |-> "text", parts |-> NoParts]

\* JSON values as json.loads and response.json() build them
Obj1(k, v) == [t |-> "obj", o |-> Put(<<>>, k, v)]
Arr(items) == [t |-> "arr", a |-> items]
Str(s) == [t |-> "str", s |-> s]

\* the decoded body of a 2xx JSON response
BodyOf(o) ==
    CASE o.shape = "text" ->
            Obj1(K_candidates, Arr(<<Obj1(K_content,
                Obj1(K_parts, Arr(<<Obj1(K_text, Str(TextOf(o.parts)))>>)))>>))
      [] o.shape = "textNotStr" ->
            Obj1(K_candidates, Arr(<<Obj1(K_content,
                Obj1(K_parts, Arr(<<Obj1(K_text, [t |-> "num", n |-> 7])>>)))>>))
      [] o.shape = "noCandidates" -> [t |-> "obj", o |-> <<>>]
      [] o.shape = "emptyCandidates" -> Obj1(K_candidates, Arr(<<>>))
      [] o.shape = "noContent" -> Obj1(K_candidates, Arr(<<[t |-> "obj", o |-> <<>>]>>))
      [] o.shape = "notObject" -> Arr(<<>>)

\* ------------------------------------------------------ Python evaluation
\* the result of evaluating an expression: a value, or a raised exception
Value(v) == [exc |-> "none", val |-> v]
Raise(e) == [exc |-> e, val |-> None]

\* r[k] for a str key k
GetKey(r, k) ==
    IF r.exc # "none" THEN r
    ELSE IF r.val.t = "obj" THEN
        IF k \in DOMAIN r.val.o THEN Value(r.val.o[k]) ELSE Raise("KeyError")
    ELSE Raise("TypeError")

\* r[0]
GetFirst(r) ==
    IF r.exc # "none" THEN r
    ELSE IF r.val.t = "arr" THEN
        IF r.val.a # <<>> THEN Value(r.val.a[1]) ELSE Raise("IndexError")
    ELSE IF r.val.t = "str" THEN
        IF r.val.s # <<>> THEN Value(Str(<<r.val.s[1]>>)) ELSE Raise("IndexError")
    ELSE IF r.val.t = "obj" THEN Raise("KeyError")
    ELSE Raise("TypeError")

\* ------------------------------------------------- extract_text_from_pdf
RECURSIVE ConcatPages(_)
ConcatPages(pages) ==
    IF pages = <<>> THEN <<>> ELSE Head(pages) \o ConcatPages(Tail(pages))

\* the text of all pages in page order; None when fitz raises
extract_text_from_pdf(pdf) ==
    IF pdf.parses THEN Some(ConcatPages(pdf.pages)) ELSE None

\* --------------------------------------------------------- call_gemini_api
\* response.raise_for_status() raises HTTPError
RaisesForStatus(status) == status >= 400 /\ status < 600

\* result['candidates'][0]['content']['parts'][0]['text']
CandidateText(body) ==
    GetKey(GetFirst(GetKey(GetKey(GetFirst(GetKey(Value(body), K_candidates)),
                                  K_content), K_parts)), K_text)

\* the slice taken of the text as received, padding included
StripFenceUnstripped(s) ==
    IF StartsWith(Strip(s), FENCE_OPEN) THEN SliceFromTo(s, 7, 3) ELSE s

\* lines 122-124: the fence test and the fixed-offset slice
StripFence(s) ==
    IF StartsWith(Strip(s), FENCE_OPEN) THEN SliceFromTo(Strip(s), 7, 3) ELSE s

\* call_gemini_api from the outcome of requests.post on: the str or None it
\* returns, or the exception that leaves it.  On a body that is not JSON,
\* response.json() raises requests.exceptions.JSONDecodeError, which is a
\* RequestException (requests 2.27 and later) and is caught at line 125
call_gemini_api(o) ==
    IF o.kind = "error" THEN Value(None)
    ELSE IF RaisesForStatus(o.status) THEN Value(None)
    ELSE IF ~o.isJson THEN Value(None)
    ELSE LET t == CandidateText(BodyOf(o))
         IN IF t.exc # "none" THEN t
            ELSE IF t.val.t # "str" THEN Raise("AttributeError")
            ELSE Value(Some(StripFence(t.val.s)))

\* -------------------------------------------------------- summarize_notice
NoSummary == [t |-> "none"]
NoResp == [kind |-> "none", status |-> 0, success |-> FALSE, message |-> "", summary |-> NoSummary]

\* jsonify({"success": False, "message": m}), status
Failure(status, m) ==
    [kind |-> "envelope", status |-> status, success |-> FALSE, message |-> m,
     summary |-> NoSummary]

\* jsonify({"success": True, "summary": v}), 200
Success(v) ==
    [kind |-> "envelope", status |-> 200, success |-> TRUE, message |-> "", summary |-> v]

\* an exception left the view function: the debugger page or the bare 500 of Flask
Unhandled(e) ==
    [kind |-> "unhandled", status |-> 500, success |-> FALSE, message |-> e,
     summary |-> NoSummary]

\* a test for None alone
ExtractionFailedOnlyNone(raw_text) == raw_text.isNone

\* line 195: the test that ends the request after extraction
ExtractionFailed(raw_text) == Falsy(raw_text)

\* lines 189-198, up to the call of call_gemini_api: the response that ends
\* the request, or none when the call is made
BeforeCall(hasFile, pdf) ==
    IF ~hasFile THEN [call |-> FALSE, raw_text |-> None, resp |-> Failure(400, MSG_NO_FILE)]
    ELSE LET raw_text == extract_text_from_pdf(pdf)
         IN IF ExtractionFailed(raw_text)
            THEN [call |-> FALSE, raw_text |-> raw_text, resp |-> Failure(500, MSG_UNREADABLE)]
            ELSE [call |-> TRUE, raw_text |-> raw_text, resp |-> NoResp]

\* a second call after a call that returned nothing
AfterCallRetrying(r, calls) ==
    IF r.exc # "none" THEN [pc |-> "done", aiCalls |-> calls, resp |-> Unhandled(r.exc)]
    ELSE IF Falsy(r.val) /\ calls < 2
        THEN [pc |-> "awaitHttp", aiCalls |-> calls + 1, resp |-> NoResp]
    ELSE IF Falsy(r.val)
        THEN [pc |-> "done", aiCalls |-> calls, resp |-> Failure(500, MSG_AI_FAILED)]
    ELSE LET summary_data == JsonLoads(r.val.val)
         IN IF summary_data.ok
            THEN [pc |-> "done", aiCalls |-> calls, resp |-> Success(summary_data.val)]
            ELSE [pc |-> "done", aiCalls |-> calls,
                  resp |-> Failure(500, MSG_INVALID_FORMAT)]

\* lines 198-206, from the return of call_gemini_api (r) on
AfterCall(r, calls) ==
    IF r.exc # "none" THEN [pc |-> "done", aiCalls |-> calls, resp |-> Unhandled(r.exc)]
    ELSE IF Falsy(r.val)
        THEN [pc |-> "done", aiCalls |-> calls, resp |-> Failure(500, MSG_AI_FAILED)]
    ELSE LET summary_data == JsonLoads(r.val.val)
         IN IF summary_data.ok
            THEN [pc |-> "done", aiCalls |-> calls, resp |-> Success(summary_data.val)]
            ELSE [pc |-> "done", aiCalls |-> calls,
                  resp |-> Failure(500, MSG_INVALID_FORMAT)]

\* ------------------------------------------------------------- /register
\* the requests, one per process, and the addresses they carry
Procs == 1..NumProcs
Emails == {"a@x", "b@x"}

NoRow == [id |-> 0, email |-> ""]
NoData == [complete |-> FALSE, email |-> ""]
NoRResp == [status |-> 0, success |-> FALSE, message |-> "", logged |-> ""]

\* line 145: SELECT id FROM users WHERE email = %s, over the committed rows
\* (READ COMMITTED, the default isolation level)
EmailFound(rows, email) == \E r \in rows : r.email = email

\* a users table whose email column carries no UNIQUE constraint
NoUniqueViolation(rows, email) == FALSE

\* line 67: email VARCHAR(255) UNIQUE NOT NULL.  An INSERT of a committed
\* address raises UniqueViolation, a psycopg2.Error
UniqueViolation(rows, email) == \E r \in rows : r.email = email

\* line 67: an INSERT of an address another open transaction has inserted
\* waits on the unique index until that transaction commits or rolls back
InsertWaits(pend, p, email) == \E q \in DOMAIN pend : q # p /\ pend[q].email = email

\* ------------------------------------------------------------------- state
VARIABLES
    pc,             \* where the /summarize request stands
    hasFile,        \* 'notice_pdf' in request.files
    pdf,            \* the upload
    raw_text,       \* extract_text_from_pdf(pdf_bytes)
    aiCalls,        \* requests.post calls made for the request
    http,           \* what requests.post came back with
    summary_json,   \* what call_gemini_api returned
    resp,           \* the response of the request
    users,          \* the committed rows of the users table
    nextId,         \* the sequence behind users.id
    rpc,            \* where each /register request stands
    rdata,          \* the JSON body of each /register request
    pending,        \* the row each open transaction has inserted
    rresp           \* the response of each /register request

svars == <<pc, hasFile, pdf, raw_text, aiCalls, http, summary_json, resp>>
rvars == <<users, nextId, rpc, rdata, pending, rresp>>

\* the state of the App component (useState, lines 331-339) and the api calls
\* it is awaiting
VARIABLES
    view,               \* which screen renderView shows
    user,               \* the signed-in user, or null
    error,              \* the message under the form
    summaryData,        \* the summary on the summary screen, or null
    loginsInFlight,     \* api.login calls not yet settled
    registersInFlight,  \* api.register calls not yet settled
    summarizesInFlight  \* api.summarize calls not yet settled

avars == <<view, user, error, summaryData, loginsInFlight, registersInFlight,
           summarizesInFlight>>
vars == <<svars, rvars, avars>>

NoPdf == [parses |-> FALSE, pages |-> <<>>]

SInit ==
    /\ pc = "idle"
    /\ hasFile = FALSE
    /\ pdf = NoPdf
    /\ raw_text = None
    /\ aiCalls = 0
    /\ http = NoOutcome
    /\ summary_json = Value(None)
    /\ resp = NoResp

\* create_users_table has run; no request has arrived
RInit ==
    /\ users = {}
    /\ nextId = 1
    /\ rpc = [p \in Procs |-> "idle"]
    /\ rdata = [p \in Procs |-> NoData]
    /\ pending = [p \in Procs |-> NoRow]
    /\ rresp = [p \in Procs |-> NoRResp]

\* null, and the user objects the server answers with
Null == "null"
Users == {"user1", "user2"}

\* useState initial values
AInit ==
    /\ view = "login"
    /\ user = Null
    /\ error = ""
    /\ summaryData = Null
    /\ loginsInFlight = 0
    /\ registersInFlight = 0
    /\ summarizesInFlight = 0

Init == SInit /\ RInit /\ AInit

\* ------------------------------------------------------ /summarize actions
\* a POST /summarize arrives and runs until it answers or blocks in requests.post
Summarize_Receive ==
    /\ pc = "idle"
    /\ \E f \in BOOLEAN, d \in Pdfs :
        LET b == BeforeCall(f, IF f THEN d ELSE NoPdf)
        IN /\ hasFile' = f
           /\ pdf' = (IF f THEN d ELSE NoPdf)
           /\ raw_text' = b.raw_text
           /\ resp' = b.resp
           /\ aiCalls' = (IF b.call THEN aiCalls + 1 ELSE aiCalls)
           /\ pc' = (IF b.call THEN "awaitHttp" ELSE "done")
    /\ UNCHANGED <<http, summary_json>>
    /\ UNCHANGED <<rvars, avars>>

\* the provider answers, or the transport gives up
Upstream_Answer ==
    /\ pc = "awaitHttp"
    /\ \E o \in HttpOutcomes : http' = o
    /\ pc' = "gotHttp"
    /\ UNCHANGED <<hasFile, pdf, raw_text, aiCalls, summary_json, resp>>
    /\ UNCHANGED <<rvars, avars>>

\* requests.post returns or raises; the handler runs to its response
Summarize_Resume ==
    /\ pc = "gotHttp"
    /\ LET r == call_gemini_api(http)
           n == AfterCall(r, aiCalls)
       IN /\ summary_json' = r
          /\ pc' = n.pc
          /\ aiCalls' = n.aiCalls
          /\ resp' = n.resp
    /\ UNCHANGED <<hasFile, pdf, raw_text, http>>
    /\ UNCHANGED <<rvars, avars>>

SNext == Summarize_Receive \/ Upstream_Answer \/ Summarize_Resume

\* one /summarize request, from any upload and any behaviour of the provider
SummarizeSpec == Init /\ [][SNext]_vars

\* the handler runs on once requests.post has returned; nothing obliges the
\* provider to answer
FairSummarizeSpec == SummarizeSpec /\ WF_vars(Summarize_Resume)

\* ------------------------------------------------------- /register actions
RFailure(status, m, e) == [status |-> status, success |-> FALSE, message |-> m, logged |-> e]

\* lines 134-141: the body is checked and the connection opened
Register_Begin(p) ==
    /\ rpc[p] = "idle"
    /\ \E complete \in BOOLEAN, e \in Emails, connected \in BOOLEAN :
        /\ rdata' = [rdata EXCEPT ![p] = [complete |-> complete, email |-> e]]
        /\ IF ~complete THEN
               /\ rresp' = [rresp EXCEPT ![p] = RFailure(400, "Missing required fields.", "")]
               /\ rpc' = [rpc EXCEPT ![p] = "done"]
           ELSE IF ~connected THEN
               /\ rresp' = [rresp EXCEPT ![p] = RFailure(500, "Database connection error.", "")]
               /\ rpc' = [rpc EXCEPT ![p] = "done"]
           ELSE
               /\ rresp' = rresp
               /\ rpc' = [rpc EXCEPT ![p] = "select"]
    /\ UNCHANGED <<users, nextId, pending>>
    /\ UNCHANGED <<svars, avars>>

\* lines 145-147: the lookup by email
Register_Select(p) ==
    /\ rpc[p] = "select"
    /\ IF EmailFound(users, rdata[p].email) THEN
           /\ rresp' = [rresp EXCEPT ![p] =
                  RFailure(409, "This email address is already in use.", "")]
           /\ rpc' = [rpc EXCEPT ![p] = "done"]
       ELSE
           /\ rresp' = rresp
           /\ rpc' = [rpc EXCEPT ![p] = "insert"]
    /\ UNCHANGED <<users, nextId, rdata, pending>>
    /\ UNCHANGED <<svars, avars>>

\* lines 149-153: the INSERT, checked against the unique index
Register_Insert(p) ==
    /\ rpc[p] = "insert"
    /\ ~InsertWaits(pending, p, rdata[p].email)
    /\ IF UniqueViolation(users, rdata[p].email) THEN
           /\ rresp' = [rresp EXCEPT ![p] =
                  RFailure(500, "An internal error occurred.", "UniqueViolation")]
           /\ rpc' = [rpc EXCEPT ![p] = "done"]
           /\ UNCHANGED <<nextId, pending>>
       ELSE
           /\ pending' = [pending EXCEPT ![p] = [id |-> nextId, email |-> rdata[p].email]]
           /\ nextId' = nextId + 1
           /\ rpc' = [rpc EXCEPT ![p] = "commit"]
           /\ rresp' = rresp
    /\ UNCHANGED <<users, rdata>>
    /\ UNCHANGED <<svars, avars>>

\* lines 154-155: conn.commit() and the 201
Register_Commit(p) ==
    /\ rpc[p] = "commit"
    /\ users' = users \cup {pending[p]}
    /\ pending' = [pending EXCEPT ![p] = NoRow]
    /\ rresp' = [rresp EXCEPT ![p] =
           [status |-> 201, success |-> TRUE, message |-> "", logged |-> ""]]
    /\ rpc' = [rpc EXCEPT ![p] = "done"]
    /\ UNCHANGED <<nextId, rdata>>
    /\ UNCHANGED <<svars, avars>>

\* lines 156-160: a statement or the commit raises psycopg2.Error (the server
\* or the connection went away); conn.close() rolls the transaction back,
\* unless the commit had reached the server before the connection broke
Register_DbError(p) ==
    /\ rpc[p] \in {"select", "insert", "commit"}
    /\ \E committed \in BOOLEAN :
        users' = (IF committed /\ rpc[p] = "commit" THEN users \cup {pending[p]} ELSE users)
    /\ pending' = [pending EXCEPT ![p] = NoRow]
    /\ rresp' = [rresp EXCEPT ![p] =
           RFailure(500, "An internal error occurred.", "OperationalError")]
    /\ rpc' = [rpc EXCEPT ![p] = "done"]
    /\ UNCHANGED <<nextId, rdata>>
    /\ UNCHANGED <<svars, avars>>

RNext ==
    \E p \in Procs :
        \/ Register_Begin(p)
        \/ Register_Select(p)
        \/ Register_Insert(p)
        \/ Register_Commit(p)
        \/ Register_DbError(p)

\* NumProcs concurrent /register requests against one users table
RegisterSpec == Init /\ [][RNext]_vars

\* ------------------------------------------------------------ App actions
\* what an awaited api call settles to: the parsed JSON of the response, or a
\* rejection (fetch failed, or the body was not JSON)
Rejected == [settled |-> "rejected", success |-> FALSE, user |-> Null, message |-> "",
             summary |-> Null]
Fulfilled(success, u, m, sm) ==
    [settled |-> "fulfilled", success |-> success, user |-> u, message |-> m, summary |-> sm]

\* the bodies login_user answers with
LoginResults ==
    {Rejected} \cup {Fulfilled(TRUE, u, "", Null) : u \in Users}
        \cup {Fulfilled(FALSE, Null, m, Null) :
                m \in {"Invalid email or password.", "An internal error occurred."}}

\* the bodies register_user answers with
RegisterResults ==
    {Rejected} \cup {Fulfilled(TRUE, u, "", Null) : u \in Users}
        \cup {Fulfilled(FALSE, Null, m, Null) :
                m \in {"This email address is already in use.",
                       "An internal error occurred."}}

\* the bodies summarize_notice answers with
SummarizeResults ==
    {Rejected, Fulfilled(TRUE, Null, "", "summary")}
        \cup {Fulfilled(FALSE, Null, m, Null) :
                m \in {MSG_UNREADABLE, MSG_AI_FAILED, MSG_INVALID_FORMAT}}

\* renderView: the screen that carries each control
LoginFormShown == view = "login"
RegisterFormShown == view = "register"
UploadScreenShown == view = "upload"
SummaryScreenShown == view = "summary"

\* handleLogin up to its await: the login form is submitted
App_SubmitLogin ==
    /\ LoginFormShown
    /\ loginsInFlight < MaxInFlight
    /\ error' = ""
    /\ loginsInFlight' = loginsInFlight + 1
    /\ UNCHANGED <<view, user, summaryData, registersInFlight, summarizesInFlight>>
    /\ UNCHANGED <<svars, rvars>>

\* handleLogin after its await
App_LoginSettles ==
    /\ loginsInFlight > 0
    /\ loginsInFlight' = loginsInFlight - 1
    /\ \E result \in LoginResults :
        IF result.settled = "rejected" THEN UNCHANGED <<user, view, error>>
        ELSE IF result.success THEN user' = result.user /\ view' = "upload" /\ error' = error
        ELSE error' = result.message /\ UNCHANGED <<user, view>>
    /\ UNCHANGED <<summaryData, registersInFlight, summarizesInFlight>>
    /\ UNCHANGED <<svars, rvars>>

\* handleRegister up to its await: the register form is submitted
App_SubmitRegister ==
    /\ RegisterFormShown
    /\ registersInFlight < MaxInFlight
    /\ \E passwordsMatch \in BOOLEAN :
        IF passwordsMatch
        THEN error' = "" /\ registersInFlight' = registersInFlight + 1
        ELSE error' = "Passwords do not match." /\ registersInFlight' = registersInFlight
    /\ UNCHANGED <<view, user, summaryData, loginsInFlight, summarizesInFlight>>
    /\ UNCHANGED <<svars, rvars>>

\* handleRegister after its await
App_RegisterSettles ==
    /\ registersInFlight > 0
    /\ registersInFlight' = registersInFlight - 1
    /\ \E result \in RegisterResults :
        IF result.settled = "rejected" THEN UNCHANGED <<user, view, error>>
        ELSE IF result.success THEN user' = result.user /\ view' = "upload" /\ error' = error
        ELSE error' = result.message /\ UNCHANGED <<user, view>>
    /\ UNCHANGED <<summaryData, loginsInFlight, summarizesInFlight>>
    /\ UNCHANGED <<svars, rvars>>

\* line 290: the link under the form switches between the two forms
App_SwitchAuth ==
    /\ LoginFormShown \/ RegisterFormShown
    /\ view' = (IF LoginFormShown THEN "register" ELSE "login")
    /\ error' = ""
    /\ UNCHANGED <<user, summaryData, loginsInFlight, registersInFlight, summarizesInFlight>>
    /\ UNCHANGED <<svars, rvars>>

\* handleLogout: Sign Out on the upload screen
App_Logout ==
    /\ UploadScreenShown
    /\ user' = Null
    /\ view' = "login"
    /\ UNCHANGED <<error, summaryData, loginsInFlight, registersInFlight, summarizesInFlight>>
    /\ UNCHANGED <<svars, rvars>>

\* handleFileUpload up to its await: a file is dropped or picked
App_Upload ==
    /\ UploadScreenShown
    /\ summarizesInFlight < MaxInFlight
    /\ view' = "analyzing"
    /\ summarizesInFlight' = summarizesInFlight + 1
    /\ UNCHANGED <<user, error, summaryData, loginsInFlight, registersInFlight>>
    /\ UNCHANGED <<svars, rvars>>

\* handleFileUpload after its await
App_SummarizeSettles ==
    /\ summarizesInFlight > 0
    /\ summarizesInFlight' = summarizesInFlight - 1
    /\ \E result \in SummarizeResults :
        IF result.settled = "rejected" THEN UNCHANGED <<view, error, summaryData>>
        ELSE IF result.success
        THEN summaryData' = result.summary /\ view' = "summary" /\ error' = error
        ELSE error' = result.message /\ view' = "upload" /\ summaryData' = summaryData
    /\ UNCHANGED <<user, loginsInFlight, registersInFlight>>
    /\ UNCHANGED <<svars, rvars>>

\* resetApp: Analyze Another Notice on the summary screen
App_Reset ==
    /\ SummaryScreenShown
    /\ view' = "upload"
    /\ summaryData' = Null
    /\ UNCHANGED <<user, error, loginsInFlight, registersInFlight, summarizesInFlight>>
    /\ UNCHANGED <<svars, rvars>>

ANext ==
    \/ App_SubmitLogin
    \/ App_LoginSettles
    \/ App_SubmitRegister
    \/ App_RegisterSettles
    \/ App_SwitchAuth
    \/ App_Logout
    \/ App_Upload
    \/ App_SummarizeSettles
    \/ App_Reset

\* the App in one browser tab, against any answers of the server
AppSpec == Init /\ [][ANext]_vars

\* the whole system
Next == SNext \/ RNext \/ ANext
Spec == Init /\ [][Next]_vars

\* ------------------------------------------------------------------ claims
\* the upload of the request was there, parsed and held text
Extracted == hasFile /\ pdf.parses /\ ConcatPages(pdf.pages) # <<>>

\* the provider answered 2xx with a JSON body holding a text
GotText == http.kind = "response" /\ http.status = 200 /\ http.isJson /\ http.shape = "text"

\* C1: the AI call is made only for a request whose upload was extracted; a
\* request without a file, or whose upload does not parse or holds no text,
\* ends with an error envelope and no AI call.
AiCallOnlyAfterExtraction ==
    /\ aiCalls > 0 => Extracted
    /\ pc # "idle" /\ ~Extracted =>
          pc = "done" /\ resp.kind = "envelope" /\ ~resp.success /\ aiCalls = 0

\* a PDF that parses and holds no text has been answered without an AI call
WitnessNoCallForEmptyPdf ==
    /\ pc = "done" /\ hasFile /\ pdf.parses /\ Len(pdf.pages) > 0
    /\ ConcatPages(pdf.pages) = <<>>
    /\ aiCalls = 0 /\ resp = Failure(500, MSG_UNREADABLE)

\* C2: every finished request carries a success or failure envelope; no
\* exception leaves summarize_notice.
NoUnhandledFailure == pc = "done" => resp.kind = "envelope"

\* C3: a success envelope carries a JSON object holding every required key.
SuccessOnlyWithRequiredKeys ==
    pc = "done" /\ resp.success =>
        resp.summary.t = "obj" /\ REQUIRED_KEYS \subseteq DOMAIN resp.summary.o

\* C4: a text of the provider that is not valid JSON once the fence is off
\* (the empty text included) is answered with the invalid-format failure.
InvalidJsonGivesInvalidFormat ==
    pc = "done" /\ GotText /\ ~JsonLoads(StripFence(TextOf(http.parts))).ok =>
        resp = Failure(500, MSG_INVALID_FORMAT)

\* the failing stages of a request, by its inputs (a 2xx body that is not JSON
\* is counted to neither the call nor the data: either reading is defensible)
CauseMissingFile == ~hasFile
CauseExtraction == hasFile /\ ~Extracted
CauseUpstreamCall ==
    Extracted /\ (http.kind = "error" \/ (http.kind = "response" /\ http.status # 200))
CauseMalformedData ==
    /\ Extracted /\ http.kind = "response" /\ http.status = 200 /\ http.isJson
    /\ http.shape # "text" \/ ~JsonLoads(StripFence(TextOf(http.parts))).ok

\* C5: the four failure messages are pairwise distinct, and every failed
\* request carries the message of the stage that failed.
MessageIdentifiesStage ==
    /\ Cardinality({MSG_NO_FILE, MSG_UNREADABLE, MSG_AI_FAILED, MSG_INVALID_FORMAT}) = 4
    /\ pc = "done" =>
        /\ CauseMissingFile => resp.kind = "envelope" /\ resp.message = MSG_NO_FILE
        /\ CauseExtraction => resp.kind = "envelope" /\ resp.message = MSG_UNREADABLE
        /\ CauseUpstreamCall => resp.kind = "envelope" /\ resp.message = MSG_AI_FAILED
        /\ CauseMalformedData =>
              resp.kind = "envelope" /\ resp.message = MSG_INVALID_FORMAT

\* C6: a text made of whitespace, the opening fence, valid JSON J, the closing
\* fence and whitespace is answered with success and the value of J; a text
\* that does not open with the fence reaches json.loads unchanged, and is
\* answered with its value when it is valid JSON.
FenceStrippedExactly ==
    pc = "done" /\ GotText =>
        LET p == http.parts
            t == TextOf(p)
        IN /\ p.open /\ p.close /\ JsonLoads(p.body).ok =>
                 resp = Success(JsonLoads(p.body).val)
           /\ ~StartsWith(LStrip(t), FENCE_OPEN) =>
                 /\ summary_json = Value(Some(t))
                 /\ JsonLoads(t).ok => resp = Success(JsonLoads(t).val)

\* a fenced and padded full summary has been answered with success
WitnessFencedSummary ==
    /\ pc = "done" /\ GotText
    /\ http.parts.open /\ http.parts.close /\ http.parts.body = TEXT_FULL
    /\ http.parts.lead # <<>> /\ http.parts.trail # <<>>
    /\ resp.success /\ REQUIRED_KEYS \subseteq DOMAIN resp.summary.o

\* C7: a request that has made its AI call is answered in the end, even when
\* the provider never answers.
EveryCallIsAnswered == (pc = "awaitHttp") ~> (pc = "done")

\* the call came back without a text: transport error, non-2xx status, a body
\* that is not JSON or lacks the path to the text
CallFailed ==
    \/ http.kind = "error"
    \/ http.kind = "response" /\ (http.status # 200 \/ ~http.isJson \/ http.shape # "text")

\* C8: a request makes at most one AI call; after a failed call it ends, in
\* failure, with that one call made.
AtMostOneAiCall ==
    /\ aiCalls <= 1
    /\ pc = "gotHttp" => aiCalls = 1
    /\ pc = "done" /\ CallFailed => aiCalls = 1 /\ ~resp.success

\* a request has failed after its one call came back with a 500
WitnessFailedAfterOneCall ==
    /\ pc = "done" /\ http.kind = "response" /\ http.status = 500
    /\ aiCalls = 1 /\ resp = Failure(500, MSG_AI_FAILED)

\* C9: for an upload that parses as a PDF and holds no text,
\* extract_text_from_pdf signals failure (None), not the empty string.
EmptyPdfSignalsFailure ==
    pc # "idle" /\ hasFile /\ pdf.parses /\ ConcatPages(pdf.pages) = <<>> =>
        raw_text = None

\* C10: the users table holds at most one row per email, and at most one
\* request carrying a given email is answered 201.
EmailsUnique ==
    \A e \in Emails :
        /\ Cardinality({r \in users : r.email = e}) <= 1
        /\ Cardinality({p \in Procs : rdata[p].email = e /\ rresp[p].status = 201}) <= 1

\* two requests with one email both passed the lookup; one was answered 201,
\* the INSERT of the other hit the unique index
WitnessConcurrentRegister ==
    \E p, q \in Procs :
        /\ p # q /\ rdata[p].email = rdata[q].email
        /\ rresp[p].status = 201
        /\ rresp[q].status = 500 /\ rresp[q].logged = "UniqueViolation"

\* C11: the upload, analyzing and summary screens are shown only while user
\* is not null, whatever the order of user actions and late answers.
ProtectedViewsNeedUser ==
    view \in {"upload", "analyzing", "summary"} => user # Null
====
